---------------------------- MODULE Spec2Model ----------------------------
(***************************************************************************)
(* Model of scripts/pbh_watch.py: the arXiv listing watcher.               *)
(*                                                                         *)
(* A Python str is modelled as a tuple of code points, so that comparison, *)
(* case folding, stripping, joining and regular-expression search are      *)
(* computed the way the interpreter computes them.                         *)
(***************************************************************************)
EXTENDS Integers, Sequences, FiniteSets, TLC

VARIABLES
    pc,          \* where main() is: "idle", "running", "noop", "written", "failed"
    parsed,      \* main: parsed, in dict insertion order: <<[name, day, items]>>
    dates,       \* main: dates
    latest_day,  \* main: latest_day
    merged,      \* main: merged
    archive,     \* docs/data: file name -> file content
    page,        \* docs/index.html: what render_html was handed, or None
    nojekyll,    \* docs/.nojekyll exists
    stats,       \* main: stats / the last result of compute_stats
    served,      \* history: the documents the pages served to this run, in fetch order
    replay,      \* the documents upstream still holds when it has not changed, or None
    archive0,    \* history: archive when the current run began
    page0,       \* history: page when the current run began
    writes,      \* history: the files the current run has written
    item,        \* is_match: the record under test
    ntok,        \* the number of fragments its searchable text was built from
    matched      \* is_match: its result

vars == <<pc, parsed, dates, latest_day, merged, archive, page, nojekyll, stats,
          served, replay, archive0, page0, writes, item, ntok, matched>>

\* An optional value (None or a value) is a sequence of at most one element.
None == <<>>
Some(x) == <<x>>

-----------------------------------------------------------------------------
(* Bounds of the model. *)

\* entries (dt/dd pairs) on the listing pages served to one run
MaxEntries == 2
\* fragments concatenated into one searchable text
MaxTokens == 5
\* records written while compute_stats is exercised on its own
MaxStatRecords == 2

-----------------------------------------------------------------------------
(* Python str operations on tuples of code points. *)

Min(a, b) == IF a < b THEN a ELSE b

\* str < str: lexicographic by code point
StrLess(a, b) ==
    \/ \E i \in 1..Min(Len(a), Len(b)) :
          /\ a[i] < b[i]
          /\ \A j \in 1..(i - 1) : a[j] = b[j]
    \/ /\ Len(a) < Len(b)
       /\ \A j \in 1..Len(a) : a[j] = b[j]

\* str.lower() / the case folding of re.IGNORECASE, on ASCII
LowerChar(c) == IF c >= 65 /\ c <= 90 THEN c + 32 ELSE c

Lower(s) == [i \in 1..Len(s) |-> LowerChar(s[i])]

\* str.isspace() and the regex class \s
IsSpace(c) == c \in {9, 10, 11, 12, 13, 28, 29, 30, 31, 32, 133, 160}

\* the regex class \w, on ASCII
IsWord(c) ==
    \/ c >= 48 /\ c <= 57
    \/ c >= 65 /\ c <= 90
    \/ c >= 97 /\ c <= 122
    \/ c = 95

\* s[i:j] with 1-based inclusive bounds
Slice(s, i, j) == IF j < i THEN <<>> ELSE SubSeq(s, i, j)

\* s.startswith(p)
StartsWith(s, p) == Len(s) >= Len(p) /\ SubSeq(s, 1, Len(p)) = p

\* str.strip()
Strip(s) ==
    LET keep == {i \in 1..Len(s) : ~IsSpace(s[i])}
    IN  IF keep = {} THEN <<>>
        ELSE LET lo == CHOOSE i \in keep : \A k \in keep : i <= k
                 hi == CHOOSE i \in keep : \A k \in keep : k <= i
             IN  SubSeq(s, lo, hi)

\* s.replace(old, ""), scanning left to right
RECURSIVE Remove(_, _)
Remove(s, old) ==
    IF s = <<>> THEN <<>>
    ELSE IF old # <<>> /\ StartsWith(s, old)
         THEN Remove(Slice(s, Len(old) + 1, Len(s)), old)
         ELSE <<s[1]>> \o Remove(Tail(s), old)

\* sep.join(parts)
RECURSIVE Join(_, _)
Join(parts, sep) ==
    IF parts = <<>> THEN <<>>
    ELSE IF Len(parts) = 1 THEN parts[1]
         ELSE parts[1] \o sep \o Join(Tail(parts), sep)

\* sorted(list(set_of_str))
RECURSIVE SortedStrs(_)
SortedStrs(S) ==
    IF S = {} THEN <<>>
    ELSE LET m == CHOOSE x \in S : \A y \in S : y = x \/ StrLess(x, y)
         IN  <<m>> \o SortedStrs(S \ {m})

-----------------------------------------------------------------------------
(* PATTERNS, REGEX and is_match (lines 13-17, 133-134). *)

\* A pattern is a sequence of atoms:
\*   <<"lit", c>>   the character c, case-insensitively
\*   <<"opt", c>>   c?
\*   <<"ws">>       \s+
\*   <<"wb">>       \b
Lit(s) == [i \in 1..Len(s) |-> <<"lit", s[i]>>]

\* "primordial", "black", "hole", "s", "PBH"
WordPrimordial == <<112, 114, 105, 109, 111, 114, 100, 105, 97, 108>>
WordBlack == <<98, 108, 97, 99, 107>>
WordHole == <<104, 111, 108, 101>>
CharS == 115
WordPBH == <<80, 66, 72>>

\* r"primordial\s+black\s+holes?"
PatternPhrase ==
    Lit(WordPrimordial) \o <<<<"ws">>>> \o Lit(WordBlack) \o <<<<"ws">>>>
        \o Lit(WordHole) \o <<<<"opt", CharS>>>>

\* r"\bPBHs?\b"
\* PBHs? without the two \b: a faulty variant of the second pattern
PatternTokenUnanchored == Lit(WordPBH) \o <<<<"opt", CharS>>>>

PatternToken ==
    <<<<"wb">>>> \o Lit(WordPBH) \o <<<<"opt", CharS>>>> \o <<<<"wb">>>>

PATTERNS == <<PatternPhrase, PatternToken>>

\* \b at the gap before text[pos]
AtWordBoundary(text, pos) ==
    LET before == pos > 1 /\ IsWord(text[pos - 1])
        after == pos <= Len(text) /\ IsWord(text[pos])
    IN  before # after

CharMatches(text, pos, c) ==
    pos <= Len(text) /\ LowerChar(text[pos]) = LowerChar(c)

\* the positions at which a match of atoms k.. that starts at pos can end
RECURSIVE MatchEnds(_, _, _, _)
MatchEnds(pat, text, k, pos) ==
    IF k > Len(pat) THEN {pos}
    ELSE LET atom == pat[k]
         IN  CASE atom[1] = "lit" ->
                    IF CharMatches(text, pos, atom[2])
                    THEN MatchEnds(pat, text, k + 1, pos + 1)
                    ELSE {}
               [] atom[1] = "opt" ->
                    MatchEnds(pat, text, k + 1, pos)
                        \cup (IF CharMatches(text, pos, atom[2])
                              THEN MatchEnds(pat, text, k + 1, pos + 1)
                              ELSE {})
               [] atom[1] = "ws" ->
                    UNION {MatchEnds(pat, text, k + 1, q) :
                             q \in {q \in (pos + 1)..(Len(text) + 1) :
                                      \A j \in pos..(q - 1) : IsSpace(text[j])}}
               [] atom[1] = "wb" ->
                    IF AtWordBoundary(text, pos)
                    THEN MatchEnds(pat, text, k + 1, pos)
                    ELSE {}

\* re.compile("|".join(PATTERNS), re.IGNORECASE).search(text) is not None
RegexSearch(pats, text) ==
    \E p \in 1..Len(pats) : \E start \in 1..(Len(text) + 1) :
        MatchEnds(pats[p], text, 1, start) # {}

\* item.get("fulltext", "")
FullTextOf(it) == IF "fulltext" \in DOMAIN it THEN it.fulltext ELSE <<>>

is_match(it) == RegexSearch(PATTERNS, FullTextOf(it))

-----------------------------------------------------------------------------
(* String constants of the script. *)

\* "astro-ph", "gr-qc": the keys of LIST_PAGES, in insertion order
LabelAstro == <<97, 115, 116, 114, 111, 45, 112, 104>>
LabelGrqc == <<103, 114, 45, 113, 99>>
LIST_PAGES == <<LabelAstro, LabelGrqc>>

\* "arXiv:", "https://arxiv.org", "(replaced)", "Title:", ", ", ".json"
ArxivPrefix == <<97, 114, 88, 105, 118, 58>>
SiteRoot == <<104, 116, 116, 112, 115, 58, 47, 47, 97, 114, 120, 105, 118, 46, 111, 114, 103>>
ReplacedMark == <<40, 114, 101, 112, 108, 97, 99, 101, 100, 41>>
TitleLabel == <<84, 105, 116, 108, 101, 58>>
CommaSpace == <<44, 32>>
JsonSuffix == <<46, 106, 115, 111, 110>>

\* [:30] of top_authors and of the archive links
TopN == 30
MaxArchiveLinks == 30

-----------------------------------------------------------------------------
(* parse_listing_date (lines 32-43). *)

RECURSIVE Pow10(_)
Pow10(n) == IF n = 0 THEN 1 ELSE 10 * Pow10(n - 1)

\* the decimal digits of n, zero-padded to width w
Digits(n, w) == [i \in 1..w |-> 48 + ((n \div Pow10(w - i)) % 10)]

\* date.isoformat(): "YYYY-MM-DD"
IsoFormat(d) == Digits(d[1], 4) \o <<45>> \o Digits(d[2], 2) \o <<45>> \o Digits(d[3], 2)

\* A document's header is None (no "Showing new listings for" h3) or the date
\* <<year, month, day>> that strptime reads from it.
ListingDateFails(doc) == doc.header = None

parse_listing_date(doc) == IsoFormat(doc.header[1])

-----------------------------------------------------------------------------
(* clean_label and parse_all_entries (lines 26-30, 45-79). *)

\* sub in s
Contains(s, sub) ==
    \E i \in 1..(Len(s) - Len(sub) + 1) : SubSeq(s, i, i + Len(sub) - 1) = sub

clean_label(s, label) ==
    LET t == Strip(s)
    IN  IF StartsWith(Lower(t), Lower(label))
        THEN Strip(Slice(t, Len(label) + 1, Len(t)))
        ELSE t

\* A raw entry is one dt/dd pair:
\*   dt_text   the text of the dt
\*   href      the href of its /abs/ anchor, or None when it has none
\*   abs_text  the text of that anchor
\*   title     the text of the list-title div, or None
\*   authors   the texts of the anchors of the list-authors div
\*   dd_text   the text of the dd
\* a faulty variant of the two skips of the loop: replaced entries are kept
EntrySkippedKeepsReplaced(e) == e.href = None

EntrySkipped(e) == Contains(e.dt_text, ReplacedMark) \/ e.href = None

EntryItem(e) ==
    [arxiv_id |-> Strip(Remove(Strip(e.abs_text), ArxivPrefix)),
     title    |-> clean_label(IF e.title = None THEN <<>> ELSE Strip(e.title[1]),
                              TitleLabel),
     authors  |-> e.authors,
     link     |-> SiteRoot \o Strip(e.href[1]),
     fulltext |-> Strip(e.dd_text)]

RECURSIVE parse_all_entries(_)
parse_all_entries(entries) ==
    IF entries = <<>> THEN <<>>
    ELSE IF EntrySkipped(Head(entries))
         THEN parse_all_entries(Tail(entries))
         ELSE <<EntryItem(Head(entries))>> \o parse_all_entries(Tail(entries))

\* lines 317-318: it["source"] = name
WithSource(items, name) ==
    [i \in 1..Len(items) |->
        [arxiv_id |-> items[i].arxiv_id, title |-> items[i].title,
         authors |-> items[i].authors, link |-> items[i].link,
         fulltext |-> items[i].fulltext, source |-> name]]

-----------------------------------------------------------------------------
(* main: the target date and the matched records (lines 322-337). *)

\* max(dates) on str
\* a faulty variant of max(dates): the date of the first source
MaxStrFirst(ds) == ds[1]

RECURSIVE MaxStr(_)
MaxStr(ds) ==
    IF Len(ds) = 1 THEN ds[1]
    ELSE LET m == MaxStr(Tail(ds))
         IN  IF StrLess(ds[1], m) THEN m ELSE ds[1]

Matched(it) ==
    [source |-> it.source, arxiv_id |-> it.arxiv_id, title |-> it.title,
     authors |-> it.authors, link |-> it.link]

RECURSIVE MatchedItems(_)
MatchedItems(items) ==
    IF items = <<>> THEN <<>>
    ELSE IF is_match(Head(items))
         THEN <<Matched(Head(items))>> \o MatchedItems(Tail(items))
         ELSE MatchedItems(Tail(items))

\* merged_raw: the matching items of the sources whose day is the latest
RECURSIVE MergedRaw(_, _)
MergedRaw(ps, latest) ==
    IF ps = <<>> THEN <<>>
    ELSE IF Head(ps).day # latest
         THEN MergedRaw(Tail(ps), latest)
         ELSE MatchedItems(Head(ps).items) \o MergedRaw(Tail(ps), latest)

-----------------------------------------------------------------------------
(* main: deduplication by arxiv_id and the sort (lines 339-362). *)

\* by_id as the sequence of its values in insertion order, each with _sourceset
IndexOfId(by_id, k) ==
    IF \E i \in 1..Len(by_id) : by_id[i].rec.arxiv_id = k
    THEN CHOOSE i \in 1..Len(by_id) : by_id[i].rec.arxiv_id = k
    ELSE 0

\* a faulty variant of the loop body: a later duplicate overwrites the record
AddToByIdLastWins(by_id, it) ==
    LET k == it.arxiv_id
        at == IndexOfId(by_id, k)
    IN  IF k = <<>> THEN by_id
        ELSE IF at = 0
             THEN Append(by_id, [rec |-> it, sourceset |-> {it.source}])
             ELSE [by_id EXCEPT ![at].rec = it, ![at].sourceset = @ \cup {it.source}]

AddToById(by_id, it) ==
    LET k == it.arxiv_id
        at == IndexOfId(by_id, k)
    IN  IF k = <<>> THEN by_id
        ELSE IF at = 0
             THEN Append(by_id, [rec |-> it,
                                 sourceset |-> IF it.source # <<>>
                                               THEN {it.source} ELSE {}])
             ELSE IF it.source # <<>>
                  THEN [by_id EXCEPT ![at].sourceset = @ \cup {it.source}]
                  ELSE by_id

RECURSIVE ById(_, _)
ById(raw, acc) ==
    IF raw = <<>> THEN acc ELSE ById(Tail(raw), AddToById(acc, Head(raw)))

\* lines 355-359
MergeSources(entry) ==
    LET sources == SortedStrs(entry.sourceset)
    IN  [entry.rec EXCEPT !.source =
            IF sources # <<>> THEN Join(sources, CommaSpace) ELSE entry.rec.source]

\* a faulty variant of the sort key: arxiv_id alone
KeyLessIdOnly(a, b) == StrLess(a.arxiv_id, b.arxiv_id)

\* the sort key (source, arxiv_id), compared as Python compares tuples
KeyLess(a, b) ==
    \/ StrLess(a.source, b.source)
    \/ a.source = b.source /\ StrLess(a.arxiv_id, b.arxiv_id)

\* list.sort is stable: x goes after every element whose key is not greater
RECURSIVE InsertByKey(_, _)
InsertByKey(sorted, x) ==
    IF sorted = <<>> THEN <<x>>
    ELSE IF KeyLess(x, Head(sorted))
         THEN <<x>> \o sorted
         ELSE <<Head(sorted)>> \o InsertByKey(Tail(sorted), x)

RECURSIVE SortByKey(_, _)
SortByKey(xs, acc) ==
    IF xs = <<>> THEN acc ELSE SortByKey(Tail(xs), InsertByKey(acc, Head(xs)))

\* merged, from merged_raw
Reconcile(raw) ==
    LET by_id == ById(raw, <<>>)
        unsorted == [i \in 1..Len(by_id) |-> MergeSources(by_id[i])]
    IN  SortByKey(unsorted, <<>>)

\* merged, as main computes it from parsed
MergedOf(ps, latest) == Reconcile(MergedRaw(ps, latest))

-----------------------------------------------------------------------------
(* load_json, write_json, list_day_files (lines 139-155, 364). *)

\* json.dump of a batch: each record as its values in key order
DumpRecord(r) == <<r.source, r.arxiv_id, r.title, r.authors, r.link>>

DumpJson(batch) == [i \in 1..Len(batch) |-> DumpRecord(batch[i])]

\* json.load
\* a faulty variant of the reading of a record: the authors are lost
LoadRecordNoAuthors(t) ==
    [source |-> t[1], arxiv_id |-> t[2], title |-> t[3], authors |-> <<>>,
     link |-> t[5]]

LoadRecord(t) ==
    [source |-> t[1], arxiv_id |-> t[2], title |-> t[3], authors |-> t[4],
     link |-> t[5]]

LoadJson(content) == [i \in 1..Len(content) |-> LoadRecord(content[i])]

\* load_json(path): None when the file does not exist
load_json(arch, fn) == IF fn \in DOMAIN arch THEN Some(LoadJson(arch[fn])) ELSE None

\* a faulty variant of write_json: an existing file is appended to
write_json_append(arch, fn, obj) ==
    [f \in DOMAIN arch \cup {fn} |->
        IF f # fn THEN arch[f]
        ELSE IF fn \in DOMAIN arch THEN arch[fn] \o DumpJson(obj) ELSE DumpJson(obj)]

\* write_json(path, obj): creates the file or replaces its content
write_json(arch, fn, obj) ==
    [f \in DOMAIN arch \cup {fn} |-> IF f = fn THEN DumpJson(obj) ELSE arch[f]]

\* f"{latest_day}.json", the file name of day_path
DayFile(day) == day \o JsonSuffix

IsDigit(c) == c >= 48 /\ c <= 57

\* re.fullmatch(r"\d{4}-\d{2}-\d{2}\.json", fn)
IsDayFileName(fn) ==
    /\ Len(fn) = 15
    /\ \A i \in {1, 2, 3, 4, 6, 7, 9, 10} : IsDigit(fn[i])
    /\ fn[5] = 45 /\ fn[8] = 45
    /\ SubSeq(fn, 11, 15) = JsonSuffix

\* list_day_files(): the sorted days that have a file
list_day_files(arch) ==
    SortedStrs({Remove(fn, JsonSuffix) :
                  fn \in {f \in DOMAIN arch : IsDayFileName(f)}})

\* sorted(days, reverse=True)
RECURSIVE Reversed(_)
Reversed(xs) == IF xs = <<>> THEN <<>> ELSE Append(Reversed(Tail(xs)), Head(xs))

-----------------------------------------------------------------------------
(* compute_stats (lines 157-167). *)

\* author_count as the sequence of its (name, count) items in insertion order.
\* The loop over one record's authors (lines 164-165): every name already counted
\* gains its occurrences in the list, and the new names are appended in the order
\* of their first occurrence.
CountAuthors(authors, counts) ==
    LET known == {counts[i][1] : i \in 1..Len(counts)}
        Occ(a) == Cardinality({k \in 1..Len(authors) : authors[k] = a})
        firsts == {k \in 1..Len(authors) :
                     /\ authors[k] \notin known
                     /\ \A j \in 1..(k - 1) : authors[j] # authors[k]}
        Nth(i) == CHOOSE k \in firsts : Cardinality({j \in firsts : j <= k}) = i
    IN  [i \in 1..Len(counts) |-> <<counts[i][1], counts[i][2] + Occ(counts[i][1])>>]
            \o [i \in 1..Cardinality(firsts) |->
                  <<authors[Nth(i)], Occ(authors[Nth(i)])>>]

RECURSIVE CountItems(_, _)
CountItems(items, counts) ==
    IF items = <<>> THEN counts
    ELSE CountItems(Tail(items), CountAuthors(Head(items).authors, counts))

\* a faulty variant of the sort key of the authors: -count alone
AuthorKeyLessCountOnly(x, y) == x[2] > y[2]

\* the key (-count, name) of the sort of author_count.items()
AuthorKeyLess(x, y) == x[2] > y[2] \/ (x[2] = y[2] /\ StrLess(x[1], y[1]))

RECURSIVE InsertAuthor(_, _)
InsertAuthor(sorted, x) ==
    IF sorted = <<>> THEN <<x>>
    ELSE IF AuthorKeyLess(x, Head(sorted))
         THEN <<x>> \o sorted
         ELSE <<Head(sorted)>> \o InsertAuthor(Tail(sorted), x)

RECURSIVE SortAuthors(_, _)
SortAuthors(xs, acc) ==
    IF xs = <<>> THEN acc ELSE SortAuthors(Tail(xs), InsertAuthor(acc, Head(xs)))

\* xs[:n]
Prefix(xs, n) == SubSeq(xs, 1, Min(n, Len(xs)))

top_authors(author_count) == Prefix(SortAuthors(author_count, <<>>), TopN)

\* the loop over days: <<total, author_count>>
RECURSIVE StatsLoop(_, _, _, _)
StatsLoop(days, arch, total, counts) ==
    IF days = <<>> THEN <<total, counts>>
    ELSE LET loaded == load_json(arch, DayFile(Head(days)))
             items == IF loaded = None THEN <<>> ELSE loaded[1]
         IN  StatsLoop(Tail(days), arch, total + Len(items),
                       CountItems(items, counts))

compute_stats(days, arch) ==
    LET r == StatsLoop(days, arch, 0, <<>>)
    IN  [update_days |-> Len(days), total_papers |-> r[1],
         top_authors |-> top_authors(r[2])]

\* what render_html(latest_day, items, stats, days_desc) shows
render_html(day, items, st, days_desc) ==
    [latest_day |-> day, items |-> items, stats |-> st,
     archive_links |-> Prefix(days_desc, MaxArchiveLinks)]

-----------------------------------------------------------------------------
(* The documents the two listing pages can serve. *)

\* "A", "B", "C"
AuthorA == <<65>>
AuthorB == <<66>>
AuthorC == <<67>>

\* "/abs/"
AbsPath == <<47, 97, 98, 115, 47>>

\* "arXiv:2", title "Title: P", text "pbhs"
EntryP ==
    [dt_text |-> ArxivPrefix \o <<50>>, href |-> Some(AbsPath \o <<50>>),
     abs_text |-> ArxivPrefix \o <<50>>, title |-> Some(TitleLabel \o <<32, 80>>),
     authors |-> <<AuthorA>>, dd_text |-> <<112, 98, 104, 115>>]

\* "arXiv:1", title "Title: Q", two authors, text "PBH"
EntryQ ==
    [dt_text |-> ArxivPrefix \o <<49>>, href |-> Some(AbsPath \o <<49>>),
     abs_text |-> ArxivPrefix \o <<49>>, title |-> Some(TitleLabel \o <<32, 81>>),
     authors |-> <<AuthorA, AuthorB>>, dd_text |-> WordPBH]

\* "arXiv:1" as another page shows it: no title block, one author, "/abs/1 "
EntryQx ==
    [dt_text |-> ArxivPrefix \o <<49>>, href |-> Some(AbsPath \o <<49, 32>>),
     abs_text |-> <<32>> \o ArxivPrefix \o <<49>>, title |-> None,
     authors |-> <<AuthorA>>, dd_text |-> WordPBH]

\* "arXiv:1 (replaced)", text "PBH"
EntryR ==
    [dt_text |-> ArxivPrefix \o <<49, 32>> \o ReplacedMark,
     href |-> Some(AbsPath \o <<49>>), abs_text |-> ArxivPrefix \o <<49>>,
     title |-> Some(TitleLabel \o <<32, 82>>), authors |-> <<AuthorC>>,
     dd_text |-> WordPBH]

\* "arXiv:3", title "Title: N", text "BH": no keyword
EntryN ==
    [dt_text |-> ArxivPrefix \o <<51>>, href |-> Some(AbsPath \o <<51>>),
     abs_text |-> ArxivPrefix \o <<51>>, title |-> Some(TitleLabel \o <<32, 78>>),
     authors |-> <<AuthorB>>, dd_text |-> <<66, 72>>]

\* an anchor whose text is only "arXiv:": the identifier comes out empty
EntryZ ==
    [dt_text |-> ArxivPrefix, href |-> Some(AbsPath), abs_text |-> ArxivPrefix,
     title |-> Some(TitleLabel \o <<32, 90>>), authors |-> <<AuthorC>>,
     dd_text |-> WordPBH]

\* what each page can list: astro-ph lists P, Q and the replacement R;
\* gr-qc lists Q as a cross-list, N and Z
EntriesOf(name) ==
    IF name = LabelAstro THEN {EntryP, EntryQ, EntryR} ELSE {EntryQx, EntryN, EntryZ}

EntryLists(name) == UNION {[1..n -> EntriesOf(name)] : n \in 0..MaxEntries}

\* 9 and 10 December 2025: ISO order and unpadded order disagree on them
ListingDates == {<<2025, 12, 9>>, <<2025, 12, 10>>}

\* r.raise_for_status() raises
ErrorDoc == [ok |-> FALSE, header |-> None, entries |-> <<>>]

\* a page without the "Showing new listings for" header
HeaderlessDoc == [ok |-> TRUE, header |-> None, entries |-> <<>>]

Docs(name) ==
    {ErrorDoc, HeaderlessDoc}
        \cup {[ok |-> TRUE, header |-> Some(d), entries |-> es] :
                d \in ListingDates, es \in EntryLists(name)}

\* what upstream can hold at one time: one document per page of LIST_PAGES
Upstreams ==
    {u \in Docs(LIST_PAGES[1]) \X Docs(LIST_PAGES[2]) :
        Len(u[1].entries) + Len(u[2].entries) <= MaxEntries}

\* "index.html", ".nojekyll"
IndexFile == <<105, 110, 100, 101, 120, 46, 104, 116, 109, 108>>
NoJekyllFile == <<46, 110, 111, 106, 101, 107, 121, 108, 108>>

-----------------------------------------------------------------------------
(* main (lines 300-381). *)

Init ==
    /\ pc = "idle"
    /\ parsed = <<>>
    /\ dates = <<>>
    /\ latest_day = None
    /\ merged = <<>>
    /\ archive = <<>>
    /\ page = None
    /\ nojekyll = FALSE
    /\ stats = None
    /\ served = <<>>
    /\ replay = None
    /\ archive0 = <<>>
    /\ page0 = None
    /\ writes = {}
    /\ item = [arxiv_id |-> <<>>]
    /\ ntok = 0
    /\ matched = FALSE

MatchVars == <<item, ntok, matched>>

Completed == pc \in {"noop", "written"}

\* main() is entered: its locals are fresh
BeginRun ==
    /\ pc' = "running"
    /\ parsed' = <<>>
    /\ dates' = <<>>
    /\ latest_day' = None
    /\ merged' = <<>>
    /\ stats' = None
    /\ served' = <<>>
    /\ archive0' = archive
    /\ page0' = page
    /\ writes' = {}
    /\ UNCHANGED <<archive, page, nojekyll, MatchVars>>

\* main() is started; the pages serve whatever upstream holds by then
StartRun ==
    /\ pc # "running"
    /\ replay' = None
    /\ BeginRun

\* main() is started again while upstream still holds the documents that the
\* run which has just completed was served
StartRepeat ==
    /\ Completed
    /\ replay' = Some(served)
    /\ BeginRun

\* a faulty variant of the loop: a page without the header gets a default date
RECURSIVE FetchLoopDefaultDate(_, _, _)
FetchLoopDefaultDate(docs, i, acc) ==
    IF i > Len(LIST_PAGES) THEN acc
    ELSE LET doc == docs[i]
             name == LIST_PAGES[i]
         IN  IF ~doc.ok
             THEN [acc EXCEPT !.raised = TRUE, !.served = Append(@, doc)]
             ELSE LET day == IF ListingDateFails(doc)
                             THEN IsoFormat(<<2025, 12, 10>>)
                             ELSE parse_listing_date(doc)
                      items == WithSource(parse_all_entries(doc.entries), name)
                  IN  FetchLoopDefaultDate(docs, i + 1,
                        [raised |-> FALSE,
                         dates |-> Append(acc.dates, day),
                         parsed |-> Append(acc.parsed,
                                      [name |-> name, day |-> day, items |-> items]),
                         served |-> Append(acc.served, doc)])

\* lines 307-320, the loop over LIST_PAGES: it stops at the first page whose
\* fetch (raise_for_status) or date (parse_listing_date) raises
RECURSIVE FetchLoop(_, _, _)
FetchLoop(docs, i, acc) ==
    IF i > Len(LIST_PAGES) THEN acc
    ELSE LET doc == docs[i]
             name == LIST_PAGES[i]
         IN  IF ~doc.ok \/ ListingDateFails(doc)
             THEN [acc EXCEPT !.raised = TRUE, !.served = Append(@, doc)]
             ELSE LET day == parse_listing_date(doc)
                      items == WithSource(parse_all_entries(doc.entries), name)
                  IN  FetchLoop(docs, i + 1,
                        [raised |-> FALSE,
                         dates |-> Append(acc.dates, day),
                         parsed |-> Append(acc.parsed,
                                      [name |-> name, day |-> day, items |-> items]),
                         served |-> Append(acc.served, doc)])

FetchAll(docs) ==
    FetchLoop(docs, 1, [raised |-> FALSE, dates |-> <<>>, parsed |-> <<>>,
                        served |-> <<>>])

\* lines 307-362: what main() computes from the documents it is served, up to
\* the comparison with the file of the day
Computed(docs) ==
    LET f == FetchAll(docs)
    IN  IF f.raised
        THEN [raised |-> TRUE, parsed |-> f.parsed, dates |-> f.dates,
              served |-> f.served, latest_day |-> None, merged |-> <<>>]
        ELSE LET latest == MaxStr(f.dates)
             IN  [raised |-> FALSE, parsed |-> f.parsed, dates |-> f.dates,
                  served |-> f.served, latest_day |-> Some(latest),
                  merged |-> MergedOf(f.parsed, latest)]

FreshRuns == {Computed(u) : u \in Upstreams}

\* the runs that can happen now
Offered == IF replay = None THEN FreshRuns ELSE {Computed(replay[1])}

\* a fetch or a date resolution raises: main() ends there
RunRaise ==
    /\ pc = "running"
    /\ \E c \in Offered :
        /\ c.raised
        /\ parsed' = c.parsed
        /\ dates' = c.dates
        /\ served' = c.served
    /\ pc' = "failed"
    /\ UNCHANGED <<latest_day, merged, archive, page, nojekyll, stats, replay,
                   archive0, page0, writes, MatchVars>>

\* lines 364-368: the computed batch equals the file of its day
RunNoop ==
    /\ pc = "running"
    /\ \E c \in Offered :
        /\ ~c.raised
        /\ load_json(archive, DayFile(c.latest_day[1])) = Some(c.merged)
        /\ parsed' = c.parsed
        /\ dates' = c.dates
        /\ served' = c.served
        /\ latest_day' = c.latest_day
        /\ merged' = c.merged
    /\ pc' = "noop"
    /\ UNCHANGED <<archive, page, nojekyll, stats, replay, archive0, page0,
                   writes, MatchVars>>

\* a faulty variant: the statistics are computed before the batch is written
StatsBeforeWrite(before, after) == compute_stats(list_day_files(before), before)

\* lines 372-374: the statistics are computed from the files as they are after
\* the write
StatsForPage(before, after) == compute_stats(list_day_files(after), after)

\* lines 370-381: the batch is written, then the statistics and the page
RunWrite ==
    /\ pc = "running"
    /\ \E c \in Offered :
        /\ ~c.raised
        /\ load_json(archive, DayFile(c.latest_day[1])) # Some(c.merged)
        /\ parsed' = c.parsed
        /\ dates' = c.dates
        /\ served' = c.served
        /\ latest_day' = c.latest_day
        /\ merged' = c.merged
        /\ archive' = write_json(archive, DayFile(c.latest_day[1]), c.merged)
        /\ writes' = {DayFile(c.latest_day[1]), IndexFile, NoJekyllFile}
    /\ stats' = Some(StatsForPage(archive, archive'))
    /\ page' = Some(render_html(latest_day'[1], merged', stats'[1],
                                Reversed(list_day_files(archive'))))
    /\ nojekyll' = TRUE
    /\ pc' = "written"
    /\ UNCHANGED <<replay, archive0, page0, MatchVars>>

Next ==
    \/ StartRun
    \/ StartRepeat
    \/ RunRaise
    \/ RunNoop
    \/ RunWrite

Spec == Init /\ [][Next]_vars

-----------------------------------------------------------------------------
(* is_match on its own: the searchable text of a record grows by fragments. *)

\* "Primordial", "BLACK", "hole", "pbh", "s", "X", " ", "-"
Fragments ==
    {<<80, 114, 105, 109, 111, 114, 100, 105, 97, 108>>,
     <<66, 76, 65, 67, 75>>,
     <<104, 111, 108, 101>>,
     <<112, 98, 104>>,
     <<115>>,
     <<88>>,
     <<32>>,
     <<45>>}

PipelineIdle ==
    /\ pc = "idle"
    /\ parsed = <<>>
    /\ dates = <<>>
    /\ latest_day = None
    /\ merged = <<>>
    /\ archive = <<>>
    /\ page = None
    /\ nojekyll = FALSE
    /\ stats = None
    /\ served = <<>>
    /\ replay = None
    /\ archive0 = <<>>
    /\ page0 = None
    /\ writes = {}

PipelineVars ==
    <<pc, parsed, dates, latest_day, merged, archive, page, nojekyll, stats,
      served, replay, archive0, page0, writes>>

\* a record without a "fulltext" key
InitMatch ==
    /\ PipelineIdle
    /\ item = [arxiv_id |-> <<49>>]
    /\ ntok = 0
    /\ matched = is_match(item)

AppendFragment ==
    /\ ntok < MaxTokens
    /\ \E t \in Fragments :
        item' = [arxiv_id |-> item.arxiv_id, fulltext |-> FullTextOf(item) \o t]
    /\ ntok' = ntok + 1
    /\ matched' = is_match(item')
    /\ UNCHANGED PipelineVars

NextMatch == AppendFragment

SpecMatch == InitMatch /\ [][NextMatch]_vars

-----------------------------------------------------------------------------
(* C8 *)

LowerAt(text, i, w) ==
    i >= 1 /\ i + Len(w) - 1 <= Len(text)
        /\ Lower(SubSeq(text, i, i + Len(w) - 1)) = Lower(w)

AllSpace(text, i, j) == i <= j /\ \A k \in i..j : IsSpace(text[k])

\* 'primordial', whitespace, 'black', whitespace, 'hole' somewhere in the text
HasPhrase(text) ==
    \E i \in 1..Len(text) :
        /\ LowerAt(text, i, WordPrimordial)
        /\ \E j \in (i + 11)..Len(text) :
            /\ AllSpace(text, i + 10, j - 1)
            /\ LowerAt(text, j, WordBlack)
            /\ \E k \in (j + 6)..Len(text) :
                /\ AllSpace(text, j + 5, k - 1)
                /\ LowerAt(text, k, WordHole)

\* PBH or PBHs with no word character on either side
HasToken(text) ==
    \E i \in 1..Len(text) : \E w \in {WordPBH, WordPBH \o <<CharS>>} :
        /\ LowerAt(text, i, w)
        /\ i = 1 \/ ~IsWord(text[i - 1])
        /\ i + Len(w) > Len(text) \/ ~IsWord(text[i + Len(w)])

\* "BLACK hole", "XpbhX"
OnlyBlackHole == <<66, 76, 65, 67, 75, 32, 104, 111, 108, 101>>
InsideLongerToken == <<88, 112, 98, 104, 88>>

\* C8: is_match is total and is true exactly when the searchable text holds,
\* case-insensitively, 'primordial' + whitespace + 'black' + whitespace +
\* 'hole(s)' or the whole word PBH/PBHs; a record without searchable text, a text
\* with only 'black hole' and a longer token containing PBH do not match.
C8_FilterSoundness ==
    /\ matched \in BOOLEAN
    /\ matched = (HasPhrase(FullTextOf(item)) \/ HasToken(FullTextOf(item)))
    /\ "fulltext" \notin DOMAIN item => ~matched
    /\ FullTextOf(item) \in {OnlyBlackHole, InsideLongerToken} => ~matched

\* the phrase alone makes a text match
C8_Witness ==
    /\ matched
    /\ HasPhrase(FullTextOf(item))
    /\ ~HasToken(FullTextOf(item))

-----------------------------------------------------------------------------
(* compute_stats on its own: batches with long author lists are persisted. *)

\* author names "A", "Aa", "B", "Ba", ...: their order is the order of i
AuthorName(i) ==
    IF i % 2 = 1 THEN <<65 + (i \div 2)>> ELSE <<64 + (i \div 2), 97>>

\* the authors lo..hi, the last one first
AuthorsDown(lo, hi) == [i \in 1..(hi - lo + 1) |-> AuthorName(hi - i + 1)]

AuthorLists ==
    {AuthorsDown(lo, hi) : lo \in {1, 2}, hi \in {2, TopN, TopN + 1}}
        \cup {<<AuthorName(2), AuthorName(2)>>}

DayFiles == {DayFile(IsoFormat(d)) : d \in ListingDates}

RecordCount(arch) ==
    LET RECURSIVE Sum(_)
        Sum(F) == IF F = {} THEN 0
                  ELSE LET f == CHOOSE x \in F : TRUE
                       IN  Len(arch[f]) + Sum(F \ {f})
    IN  Sum(DOMAIN arch)

\* the n-th record of a batch of astro-ph
StatRecord(n, authors) ==
    [source |-> LabelAstro, arxiv_id |-> <<48 + n>>, title |-> <<>>,
     authors |-> authors, link |-> SiteRoot \o AbsPath \o <<48 + n>>]

InitStats ==
    /\ PipelineIdle
    /\ item = [arxiv_id |-> <<>>]
    /\ ntok = 0
    /\ matched = FALSE

StatVars ==
    <<pc, parsed, dates, latest_day, merged, page, nojekyll, served, replay,
      archive0, page0, writes, item, ntok, matched>>

\* a day without matches: its batch is the empty list
PersistEmptyBatch ==
    /\ \E fn \in DayFiles \ DOMAIN archive :
        archive' = write_json(archive, fn, <<>>)
    /\ stats' = Some(compute_stats(list_day_files(archive'), archive'))
    /\ UNCHANGED StatVars

\* a batch gains a record
PersistRecord ==
    /\ RecordCount(archive) < MaxStatRecords
    /\ \E fn \in DayFiles : \E authors \in AuthorLists :
        LET loaded == load_json(archive, fn)
            batch == IF loaded = None THEN <<>> ELSE loaded[1]
        IN  archive' = write_json(archive, fn,
                          Append(batch, StatRecord(Len(batch) + 1, authors)))
    /\ stats' = Some(compute_stats(list_day_files(archive'), archive'))
    /\ UNCHANGED StatVars

NextStats == PersistEmptyBatch \/ PersistRecord

SpecStats == InitStats /\ [][NextStats]_vars

-----------------------------------------------------------------------------
(* C7 *)

\* the places where an author is named: <<file, record, position>>
AuthorPlaces(arch) ==
    UNION {UNION {{<<f, r, k>> : k \in 1..Len(arch[f][r][4])} :
                    r \in 1..Len(arch[f])} : f \in DOMAIN arch}

AuthorAt(arch, o) == arch[o[1]][o[2]][4][o[3]]

\* C7: total_papers is the sum of the record counts of all batches, update_days
\* the number of batches, and top_authors the (author, count) pairs, count being
\* the author's occurrences over every record of every batch, by count descending
\* then name ascending, cut to the first 30.
C7_StatsConsistency ==
    stats # None =>
        LET st == stats[1]
            top == st.top_authors
            names == {top[i][1] : i \in 1..Len(top)}
            places == AuthorPlaces(archive)
            all == {AuthorAt(archive, o) : o \in places}
            count == [a \in all |->
                        Cardinality({o \in places : AuthorAt(archive, o) = a})]
            RankedBefore(x, y) ==
                count[x] > count[y] \/ (count[x] = count[y] /\ StrLess(x, y))
        IN  /\ st.total_papers = RecordCount(archive)
            /\ st.update_days = Cardinality(DOMAIN archive)
            /\ Len(top) = Min(TopN, Cardinality(all))
            /\ names \subseteq all
            /\ \A i \in 1..Len(top) : top[i][2] = count[top[i][1]]
            /\ \A i \in 1..(Len(top) - 1) : RankedBefore(top[i][1], top[i + 1][1])
            /\ \A a \in all \ names : \A i \in 1..Len(top) :
                 RankedBefore(top[i][1], a)

\* more than 30 authors over two batches, one of them counted twice
C7_Witness ==
    /\ stats # None
    /\ Cardinality(DOMAIN archive) = 2
    /\ Cardinality({AuthorAt(archive, o) : o \in AuthorPlaces(archive)}) > TopN
    /\ Len(stats[1].top_authors) = TopN
    /\ stats[1].top_authors[1][2] = 2
    /\ stats[1].top_authors[TopN][2] = 1

-----------------------------------------------------------------------------
(* Notions shared by the claims about main. *)

\* the matched records of the sources that resolved to the target date
RawOfRun == MergedRaw(parsed, latest_day[1])

IdsOf(records) == {records[i].arxiv_id : i \in 1..Len(records)}

WithId(records, k) == {i \in 1..Len(records) : records[i].arxiv_id = k}

FirstWithId(records, k) ==
    records[CHOOSE i \in WithId(records, k) : \A j \in WithId(records, k) : i <= j]

\* the labels of a set of sources, sorted and joined by ", "
SourceString(labels) == Join(SortedStrs(labels), CommaSpace)

\* the record of the batch is the first-arriving one, under every label
MergedFrom(raw, r) ==
    LET first == FirstWithId(raw, r.arxiv_id)
    IN  /\ r.title = first.title
        /\ r.authors = first.authors
        /\ r.link = first.link
        /\ r.source = SourceString({raw[i].source : i \in WithId(raw, r.arxiv_id)})

\* the file of the target date holds the computed batch
TargetPersisted == load_json(archive, DayFile(latest_day[1])) = Some(merged)

-----------------------------------------------------------------------------
(* C1 *)

\* C1 as stated: the batch holds exactly one record for every identifier of the
\* matched records, merged from the first-arriving one.
C1_Original ==
    Completed =>
        \A k \in IdsOf(RawOfRun) :
            /\ Cardinality(WithId(merged, k)) = 1
            /\ \A i \in WithId(merged, k) : MergedFrom(RawOfRun, merged[i])

\* C1, amended: the batch holds exactly one record for every non-empty identifier
\* of the matched records and none for the empty identifier; the record's source
\* is the union of the labels of the sources that reported the identifier, and
\* its title, authors and link are those of the first-arriving record.
C1_Dedup ==
    Completed =>
        /\ IdsOf(merged) = IdsOf(RawOfRun) \ {<<>>}
        /\ \A k \in IdsOf(merged) : Cardinality(WithId(merged, k)) = 1
        /\ \A i \in 1..Len(merged) : MergedFrom(RawOfRun, merged[i])
        /\ TargetPersisted

\* both pages report one identifier with different titles
C1_Witness ==
    /\ Completed
    /\ \E i \in 1..Len(merged) :
        /\ merged[i].source = SourceString({LabelAstro, LabelGrqc})
        /\ \E j \in WithId(RawOfRun, merged[i].arxiv_id) :
             RawOfRun[j].title # merged[i].title

-----------------------------------------------------------------------------
(* C2 *)

\* C2: a run that is served the documents of the completed run before it ends
\* without writing: no file is written and the archive and the page are as they
\* were when it began.
C2_NoOpIdempotence ==
    (replay # None /\ pc # "running") =>
        /\ pc = "noop"
        /\ writes = {}
        /\ archive = archive0
        /\ page = page0

\* the repeated run computed a batch of two records and found it on disk
C2_Witness ==
    /\ replay # None
    /\ pc = "noop"
    /\ Len(merged) = 2
    /\ TargetPersisted

-----------------------------------------------------------------------------
(* C3 *)

\* calendar order of <<year, month, day>>
DateBefore(a, b) ==
    \/ a[1] < b[1]
    \/ a[1] = b[1] /\ a[2] < b[2]
    \/ a[1] = b[1] /\ a[2] = b[2] /\ a[3] < b[3]

ServedDates == {served[i].header[1] : i \in 1..Len(served)}

NewestDate == CHOOSE d \in ServedDates : \A e \in ServedDates : ~DateBefore(d, e)

StaleSources == {i \in 1..Len(served) : DateBefore(served[i].header[1], NewestDate)}

Untouched(fn) ==
    /\ fn \in DOMAIN archive <=> fn \in DOMAIN archive0
    /\ fn \in DOMAIN archive => archive[fn] = archive0[fn]

\* C3: the target date is the latest of the dates the sources resolved to; a
\* source that resolved to an earlier date gives the batch no record and no
\* label, and the file of that earlier date is neither created nor modified.
C3_DateExclusion ==
    Completed =>
        /\ latest_day = Some(IsoFormat(NewestDate))
        /\ TargetPersisted
        /\ \A r \in {merged[i] : i \in 1..Len(merged)} :
             \E s \in (1..Len(served)) \ StaleSources :
               \E k \in 1..Len(parsed[s].items) :
                 /\ parsed[s].items[k].arxiv_id = r.arxiv_id
                 /\ parsed[s].items[k].title = r.title
                 /\ parsed[s].items[k].authors = r.authors
                 /\ parsed[s].items[k].link = r.link
        /\ \A s \in StaleSources :
             /\ \A i \in 1..Len(merged) : ~Contains(merged[i].source, LIST_PAGES[s])
             /\ Untouched(DayFile(IsoFormat(served[s].header[1])))

\* a page that lags a day behind lists a matching entry, and a batch is written
C3_Witness ==
    /\ pc = "written"
    /\ merged # <<>>
    /\ \E s \in StaleSources : MatchedItems(parsed[s].items) # <<>>

-----------------------------------------------------------------------------
(* C4 *)

DocFails(doc) == ~doc.ok \/ doc.header = None

\* C4: a run in which a fetch or a date resolution fails ends in an error with
\* nothing written and the archive and the page as they were; a run completes
\* only when every source was fetched and dated, each day being the one its
\* header states.
C4_FailureAtomicity ==
    /\ pc = "failed" =>
         /\ DocFails(served[Len(served)])
         /\ writes = {}
         /\ archive = archive0
         /\ page = page0
         /\ latest_day = None
    /\ Completed =>
         /\ Len(served) = Len(LIST_PAGES)
         /\ \A i \in 1..Len(served) :
              /\ ~DocFails(served[i])
              /\ parsed[i].day = IsoFormat(served[i].header[1])
    /\ writes # {} => pc = "written"

\* the second page fails after the first was parsed, with batches on disk
C4_Witness ==
    /\ pc = "failed"
    /\ Len(served) = 2
    /\ Len(parsed) = 1 /\ MatchedItems(parsed[1].items) # <<>>
    /\ archive # <<>>

-----------------------------------------------------------------------------
(* C5 *)

MarkedReplaced(e) == Contains(e.dt_text, ReplacedMark)

\* the title of EntryR as a record would carry it: "R"
ReplacedTitle == <<82>>

\* C5: every record of the batch, under each of its labels, comes from an entry
\* of that page which is not marked as replaced, and what a replaced entry
\* carries is in no persisted batch.
C5_RevisionExclusion ==
    /\ Completed =>
         \A i \in 1..Len(merged) :
            /\ \A s \in 1..Len(LIST_PAGES) :
                 Contains(merged[i].source, LIST_PAGES[s]) =>
                    \E k \in 1..Len(served[s].entries) :
                       /\ ~MarkedReplaced(served[s].entries[k])
                       /\ EntryItem(served[s].entries[k]).arxiv_id = merged[i].arxiv_id
            /\ \E s \in 1..Len(LIST_PAGES) : \E k \in 1..Len(served[s].entries) :
                 /\ ~MarkedReplaced(served[s].entries[k])
                 /\ EntryItem(served[s].entries[k]).arxiv_id = merged[i].arxiv_id
                 /\ EntryItem(served[s].entries[k]).title = merged[i].title
                 /\ EntryItem(served[s].entries[k]).authors = merged[i].authors
    /\ \A fn \in DOMAIN archive : \A i \in 1..Len(archive[fn]) :
         archive[fn][i][3] # ReplacedTitle

\* a page of the target date lists a matching replaced entry; a batch is written
C5_Witness ==
    /\ pc = "written"
    /\ merged # <<>>
    /\ \E s \in 1..Len(served) :
        /\ parsed[s].day = latest_day[1]
        /\ \E k \in 1..Len(served[s].entries) :
            /\ MarkedReplaced(served[s].entries[k])
            /\ is_match([fulltext |-> served[s].entries[k].dd_text])

-----------------------------------------------------------------------------
(* C6 *)

\* (source, identifier) of a serialized record
KeyLeq(a, b) ==
    \/ StrLess(a[1], b[1])
    \/ a[1] = b[1] /\ (a[2] = b[2] \/ StrLess(a[2], b[2]))

Ascending(keys) ==
    \A i \in 1..Len(keys) : \A j \in (i + 1)..Len(keys) : KeyLeq(keys[i], keys[j])

KeysOf(batch) == [i \in 1..Len(batch) |-> <<batch[i].source, batch[i].arxiv_id>>]

\* C6: the records of the batch are in ascending order of (source string,
\* identifier), in the same order when the sources are iterated the other way
\* round, and so are the records of every persisted batch.
C6_OrderingDeterminism ==
    /\ Completed =>
         /\ Ascending(KeysOf(merged))
         /\ KeysOf(merged) = KeysOf(MergedOf(Reversed(parsed), latest_day[1]))
    /\ \A fn \in DOMAIN archive :
         Ascending([i \in 1..Len(archive[fn]) |-> <<archive[fn][i][1], archive[fn][i][2]>>])

\* the batch is written in another order than its records arrived in
C6_Witness ==
    /\ pc = "written"
    /\ Len(merged) >= 2
    /\ RawOfRun[1].arxiv_id # merged[1].arxiv_id

-----------------------------------------------------------------------------
(* C9 *)

\* C9 as stated: once a batch is persisted, no step changes it.
C9_Original ==
    [][\A fn \in DOMAIN archive :
         fn \in DOMAIN archive' /\ archive'[fn] = archive[fn]]_vars

\* C9, amended: a persisted batch is never removed, and it changes only when a
\* run whose target date is its date computes a batch that differs from it; it
\* is then replaced by that batch.
C9_RewriteOnlyOnChange ==
    [][\A fn \in DOMAIN archive :
         /\ fn \in DOMAIN archive'
         /\ archive'[fn] # archive[fn] =>
              /\ pc' = "written"
              /\ fn = DayFile(latest_day'[1])
              /\ merged' # LoadJson(archive[fn])
              /\ archive'[fn] = DumpJson(merged')]_vars

\* a run has replaced the batch of its target date by a different one
C9_Witness ==
    /\ pc = "written"
    /\ DayFile(latest_day[1]) \in DOMAIN archive0
    /\ archive0[DayFile(latest_day[1])] # archive[DayFile(latest_day[1])]
    /\ archive0[DayFile(latest_day[1])] # <<>>

-----------------------------------------------------------------------------
(* C10 *)

\* the files that a step creates or changes
Touched(before, after) ==
    {fn \in DOMAIN after : fn \notin DOMAIN before \/ after[fn] # before[fn]}

\* C10: a step of a run creates or changes at most one batch file, the one of
\* the run's target date, which is the latest served date; it removes none; and
\* when it writes, the statistics handed to the page count the files as they are
\* after the write.
C10_RunFrame ==
    [][/\ DOMAIN archive \subseteq DOMAIN archive'
       /\ Touched(archive, archive') # {} =>
            /\ pc' = "written"
            /\ Touched(archive, archive') = {DayFile(latest_day'[1])}
            /\ latest_day' = Some(IsoFormat(NewestDate'))
            /\ writes' = {DayFile(latest_day'[1]), IndexFile, NoJekyllFile}
            /\ stats'[1].update_days = Cardinality(DOMAIN archive')
            /\ stats'[1].total_papers = RecordCount(archive')
            /\ page'[1].stats = stats'[1]
            /\ page'[1].latest_day = latest_day'[1]
            /\ page'[1].items = merged'
       /\ pc' = "written" => Touched(archive, archive') # {}]_vars

\* a run adds a second day to the archive and its statistics count both
C10_Witness ==
    /\ pc = "written"
    /\ Cardinality(DOMAIN archive0) = 1
    /\ Cardinality(DOMAIN archive) = 2
    /\ stats[1].update_days = 2
    /\ stats[1].total_papers >= 2

=============================================================================
